---- MODULE Spec2Model ----
(***************************************************************************)
(* Model of get_data.py: the grid generator generate_geojson_grid and the  *)
(* population fetcher get_worldpop_data.                                   *)
(*                                                                         *)
(* Python floats are modelled as exact rationals <<numerator,              *)
(* denominator>> in lowest terms with a positive denominator; rounding of  *)
(* IEEE doubles is not modelled.  Python exceptions and exit() end a call  *)
(* in the positions "raised" and "exited".                                 *)
(***************************************************************************)
EXTENDS Integers, Sequences, FiniteSets, TLC

VARIABLES
    \* ---- generate_geojson_grid: arguments held by the caller
    bounds,             \* list of corner points <<x, y>> (x = latitude)
    min_division,       \* minimum division size in metres
    num_divisions,      \* None, or the caller's list <<a, b>> (mutable)
    \* ---- generate_geojson_grid: locals and files
    gpc,                \* position: "call", "loop", "done", "raised", "exited"
    divisions,          \* <<[count, deg, metres], [count, deg, metres]>>
    geojson_grid,       \* the features appended so far
    current_grid_coors, \* <<x, y>> running corner (rationals)
    division_width,     \* Unbound until the inner loop body has run once
    division_height,
    outer_done,         \* completed iterations of the loop at line 84
    inner_done,         \* completed iterations of the loop at line 85
    summary_file,       \* None, or what create_summary_file wrote
    grid_file,          \* None, or the features dumped to output_file
    \* ---- the caller of generate_geojson_grid
    call_no,            \* 1 or 2: which of two successive calls is running
    first_call,         \* None, or [divisions, features] of the first call
    arg_num_divisions,  \* num_divisions as the caller first built it
    \* ---- get_worldpop_data
    delete_original,    \* the argument of that name
    geojson_data,       \* per feature its properties: None or Some(population)
    original_data,      \* geojson_data as loaded from geojson_file
    fpc,                \* position: "cells", "polling", "done", "failed"
    cell,               \* index of the feature the for loop is at
    total_population,
    current_timeout,
    fetched,
    submitted,          \* cells for which an initial request was sent
    requests,           \* number of requests.get calls made (both URLs)
    polls,              \* status requests made for the current task
    sleeps,             \* durations passed to sleep() for the current task
    slept,              \* TRUE iff sleep() ran after the latest status request
    last_response,      \* None, or the latest response with the call it answered
    output_file,        \* None, or the data dumped to output_file
    original_deleted,   \* TRUE once remove(geojson_file) ran
    pop_summary         \* None, or the statistics appended to the summary

gridVars == <<bounds, min_division, num_divisions, gpc, divisions, geojson_grid,
              current_grid_coors, division_width, division_height, outer_done,
              inner_done, summary_file, grid_file, call_no, first_call,
              arg_num_divisions>>

fetchVars == <<delete_original, pop_summary, geojson_data, original_data, fpc, cell, total_population,
               current_timeout, fetched, submitted, requests, polls, sleeps,
               slept, last_response, output_file, original_deleted>>

vars == <<gridVars, fetchVars>>

\* Python's None, an unbound local, a missing file and an empty property map
\* are the empty tuple; a present value x is the one-element tuple <<x>>.
None == <<>>
Unbound == <<>>
Some(x) == <<x>>

----------------------------------------------------------------------------
(* Bounds of the model *)

MaxCoord == 2          \* corner coordinates range over 0..MaxCoord
MaxCount == 2          \* explicit division counts range over -1..MaxCount
NumCells == 2          \* a grid file holds 0..NumCells features
MaxPopulation == 1     \* populations range over 0..MaxPopulation
MaxPolls == 3          \* status requests modelled for one task
LeastMinDivision == 3  \* positive min_division values range over
MaxMinDivision == 8    \*   LeastMinDivision..MaxMinDivision

----------------------------------------------------------------------------
(* Float arithmetic as exact rationals *)

Abs(n) == IF n < 0 THEN -n ELSE n

RECURSIVE GCD(_, _)
GCD(a, b) == IF b = 0 THEN a ELSE GCD(b, a % b)

\* n / d for d # 0, in lowest terms with a positive denominator
Rat(n, d) ==
    LET s == IF d < 0 THEN -1 ELSE 1
        g == GCD(Abs(n), Abs(d))
    IN  <<(s * n) \div g, (s * d) \div g>>

FromInt(n) == <<n, 1>>
RatAdd(p, q) == Rat(p[1] * q[2] + q[1] * p[2], p[2] * q[2])
RatSub(p, q) == Rat(p[1] * q[2] - q[1] * p[2], p[2] * q[2])
RatMul(p, q) == Rat(p[1] * q[1], p[2] * q[2])
RatDiv(p, q) == Rat(p[1] * q[2], p[2] * q[1])

\* math.floor
Floor(p) == p[1] \div p[2]
\* float.is_integer
is_integer(p) == p[2] = 1
\* p % 1 on a Python float: p - floor(p)
Mod1(p) == RatSub(p, FromInt(Floor(p)))

----------------------------------------------------------------------------
(* generate_geojson_grid *)

Point == (0 .. MaxCoord) \X (0 .. MaxCoord)

SetMax(S) == CHOOSE m \in S : \A n \in S : n <= m
SetMin(S) == CHOOSE m \in S : \A n \in S : m <= n

max_x(b) == SetMax({b[k][1] : k \in 1 .. Len(b)})
min_x(b) == SetMin({b[k][1] : k \in 1 .. Len(b)})
max_y(b) == SetMax({b[k][2] : k \in 1 .. Len(b)})
min_y(b) == SetMin({b[k][2] : k \in 1 .. Len(b)})

\* geopy's geodesic(p, q).km * 1000, for the axis-parallel pairs the code
\* passes: proportional to the separation (MetresPerUnit metres for each
\* unit of latitude or longitude), zero exactly for equal points.
MetresPerUnit == 7

geodesic(p, q) == MetresPerUnit * (Abs(p[1] - q[1]) + Abs(p[2] - q[2]))


\* list.reverse(), done in place on the caller's list (line 75)
reverse(l) == [k \in 1 .. Len(l) |-> l[Len(l) + 1 - k]]

\* math.floor(num_divisions) of lines 72-73, num_divisions = dimension / min_division
division_count(dimension, m) == Floor(Rat(dimension, m))

\* adjusted_size with the fractional part not scaled back to metres
adjusted_size_unscaled(dimension, m) ==
    LET num == Rat(dimension, m)
    IN  IF ~ is_integer(num)
        THEN RatAdd(FromInt(m), RatDiv(Mod1(num), FromInt(Floor(num))))
        ELSE FromInt(m)

\* division_size of lines 69-72; the caller has excluded the divisions by zero
adjusted_size(dimension, m) ==
    LET num == Rat(dimension, m)
    IN  IF ~ is_integer(num)
        THEN RatAdd(FromInt(m),
                    RatDiv(RatMul(Mod1(num), FromInt(m)), FromInt(Floor(num))))
        ELSE FromInt(m)

\* One pass of the loop at lines 68-73 raises ZeroDivisionError when one of
\* its three divisions has a zero divisor: min_division at line 70,
\* math.floor(num_divisions) at lines 72 and 73.
min_division_raises(dimension, m) ==
    IF m = 0 THEN TRUE ELSE division_count(dimension, m) = 0

\* The entry that pass appends to divisions when it does not raise
min_division_axis(dimension, diff, m) ==
    [count  |-> division_count(dimension, m),
     deg    |-> Rat(diff, division_count(dimension, m)),
     metres |-> adjusted_size(dimension, m)]

\* One pass of the loop at lines 76-77 raises when dim_division is zero
explicit_raises(dim_division) == dim_division = 0

\* The entry that pass appends to divisions when it does not raise
explicit_axis(dim_division, dimension, diff) ==
    [count  |-> dim_division,
     deg    |-> Rat(diff, dim_division),
     metres |-> Rat(dimension, dim_division)]

height(b) == geodesic(<<min_x(b), min_y(b)>>, <<min_x(b), max_y(b)>>)  \* line 62
width(b)  == geodesic(<<min_x(b), min_y(b)>>, <<max_x(b), min_y(b)>>)  \* line 63

\* The list num_divisions refers to once line 75 has run
reversed_argument(nd) == IF nd = None THEN None ELSE reverse(nd)

\* Lines 65-77 raise ZeroDivisionError, given the arguments at the call
divisions_raise(b, m, nd) ==
    LET dims == <<width(b), height(b)>>
    IN  \E k \in 1 .. 2 :
            IF nd = None
            THEN min_division_raises(dims[k], m)
            ELSE explicit_raises(reversed_argument(nd)[k])

\* divisions as built by lines 65-77 when no pass raises
compute_divisions(b, m, nd) ==
    LET dims  == <<width(b), height(b)>>
        diffs == <<max_x(b) - min_x(b), max_y(b) - min_y(b)>>
    IN  [k \in 1 .. 2 |->
            IF nd = None
            THEN min_division_axis(dims[k], diffs[k], m)
            ELSE explicit_axis(reversed_argument(nd)[k], dims[k], diffs[k])]

\* What create_summary_file writes (lines 28-39); the title and the rounded
\* metre figures are left out.
create_summary_file(b, divs) ==
    [bounds_line |-> <<min_x(b), max_x(b), min_y(b), max_y(b)>>,
     regions     |-> divs[2].count * divs[1].count,
     x_divisions |-> divs[2].count,
     y_divisions |-> divs[1].count]

\* Lines 55-60: a bounds list of neither 2 nor 4 points ends the program
InvalidBounds ==
    /\ gpc = "call"
    /\ Len(bounds) \notin {2, 4}
    /\ gpc' = "exited"
    /\ UNCHANGED <<bounds, min_division, num_divisions, divisions, geojson_grid,
                   current_grid_coors, division_width, division_height,
                   outer_done, inner_done, summary_file, grid_file, call_no,
                   first_call, arg_num_divisions>>
    /\ UNCHANGED fetchVars

\* Lines 55-77 when a division by zero is raised: nothing is written, but
\* line 75 has already reversed the caller's list
DivisionRaises ==
    /\ gpc = "call"
    /\ Len(bounds) \in {2, 4}
    /\ divisions_raise(bounds, min_division, num_divisions)
    /\ num_divisions' = reversed_argument(num_divisions)
    /\ gpc' = "raised"
    /\ UNCHANGED <<bounds, min_division, divisions, geojson_grid,
                   current_grid_coors, division_width, division_height,
                   outer_done, inner_done, summary_file, grid_file, call_no,
                   first_call, arg_num_divisions>>
    /\ UNCHANGED fetchVars

\* Lines 55-83: divisions computed, the summary written, the loop set up
BeginGrid ==
    /\ gpc = "call"
    /\ Len(bounds) \in {2, 4}
    /\ ~ divisions_raise(bounds, min_division, num_divisions)
    /\ divisions' = compute_divisions(bounds, min_division, num_divisions)
    /\ num_divisions' = reversed_argument(num_divisions)
    /\ summary_file' = Some(create_summary_file(bounds, divisions'))
    /\ geojson_grid' = <<>>
    /\ current_grid_coors' = <<FromInt(min_x(bounds)), FromInt(min_y(bounds))>>
    /\ outer_done' = 0
    /\ inner_done' = 0
    /\ gpc' = "loop"
    /\ UNCHANGED <<bounds, min_division, division_width, division_height,
                   grid_file, call_no, first_call, arg_num_divisions>>
    /\ UNCHANGED fetchVars

\* range(n) has max(n, 0) iterations
range_len(n) == IF n < 0 THEN 0 ELSE n

\* coors of lines 88-91
coors(curr_x, curr_y, dw, dh) ==
    << <<curr_y, curr_x>>,
       <<curr_y, RatAdd(curr_x, dw)>>,
       <<RatAdd(curr_y, dh), RatAdd(curr_x, dw)>>,
       <<RatAdd(curr_y, dh), curr_x>> >>

\* Lines 86-95: one pass of the inner loop
InnerBody ==
    /\ gpc = "loop"
    /\ outer_done < range_len(divisions[1].count)
    /\ inner_done < range_len(divisions[2].count)
    /\ division_width' = divisions[1].deg
    /\ division_height' = divisions[2].deg
    /\ geojson_grid' = Append(geojson_grid,
            [properties |-> None,
             coordinates |-> coors(current_grid_coors[1], current_grid_coors[2],
                                   division_width', division_height')])
    /\ current_grid_coors' = <<current_grid_coors[1],
                               RatAdd(current_grid_coors[2], division_height')>>
    /\ inner_done' = inner_done + 1
    /\ UNCHANGED <<bounds, min_division, num_divisions, gpc, divisions,
                   outer_done, summary_file, grid_file, call_no, first_call,
                   arg_num_divisions>>
    /\ UNCHANGED fetchVars

\* Lines 97-98: the end of one pass of the outer loop.  division_width is
\* only bound by the inner loop body: without a pass of it line 98 raises.
OuterEnd ==
    /\ gpc = "loop"
    /\ outer_done < range_len(divisions[1].count)
    /\ inner_done = range_len(divisions[2].count)
    /\ IF division_width = Unbound
       THEN /\ gpc' = "raised"
            /\ current_grid_coors' =
                   <<current_grid_coors[1], FromInt(min_y(bounds))>>
            /\ UNCHANGED <<outer_done, inner_done>>
       ELSE /\ current_grid_coors' =
                   <<RatAdd(current_grid_coors[1], division_width),
                     FromInt(min_y(bounds))>>
            /\ outer_done' = outer_done + 1
            /\ inner_done' = 0
            /\ gpc' = gpc
    /\ UNCHANGED <<bounds, min_division, num_divisions, divisions, geojson_grid,
                   division_width, division_height, summary_file, grid_file,
                   call_no, first_call, arg_num_divisions>>
    /\ UNCHANGED fetchVars

\* Lines 100-102: the grid is dumped and the call returns
DumpGrid ==
    /\ gpc = "loop"
    /\ outer_done = range_len(divisions[1].count)
    /\ grid_file' = Some(geojson_grid)
    /\ gpc' = "done"
    /\ UNCHANGED <<bounds, min_division, num_divisions, divisions, geojson_grid,
                   current_grid_coors, division_width, division_height,
                   outer_done, inner_done, summary_file, call_no, first_call,
                   arg_num_divisions>>
    /\ UNCHANGED fetchVars

\* The caller calls generate_geojson_grid a second time, passing the objects
\* it passed the first time; the callee's locals are fresh.
CallAgain ==
    /\ gpc = "done"
    /\ call_no = 1
    /\ call_no' = 2
    /\ first_call' = Some([divisions |-> divisions, features |-> geojson_grid])
    /\ gpc' = "call"
    /\ division_width' = Unbound
    /\ division_height' = Unbound
    /\ UNCHANGED <<bounds, min_division, num_divisions, divisions, geojson_grid,
                   current_grid_coors, outer_done, inner_done, summary_file,
                   grid_file, arg_num_divisions>>
    /\ UNCHANGED fetchVars

DefaultMinDivision == 100

\* The two corners, and the shapes a bounds list can have around them
BoundsInputs ==
    UNION {{ <<p, q>>,
             <<p, <<p[1], q[2]>>, q, <<q[1], p[2]>>>>,
             <<p>>,
             <<p, q, p>> } : p \in Point, q \in Point}

\* min_division as the caller may pass it: the sizes the bounds allow, zero
\* and a negative size
MinDivisionInputs ==
    (LeastMinDivision .. MaxMinDivision) \cup {0, -LeastMinDivision}

GridIdle ==
    /\ bounds = <<>> /\ min_division = DefaultMinDivision /\ num_divisions = None
    /\ gpc = "idle" /\ divisions = None /\ geojson_grid = <<>>
    /\ current_grid_coors = None /\ division_width = Unbound
    /\ division_height = Unbound /\ outer_done = 0 /\ inner_done = 0
    /\ summary_file = None /\ grid_file = None /\ call_no = 1
    /\ first_call = None /\ arg_num_divisions = None

FetchIdle ==
    /\ geojson_data = <<>> /\ original_data = <<>> /\ fpc = "idle" /\ cell = 1
    /\ total_population = 0 /\ current_timeout = 0 /\ fetched = FALSE
    /\ submitted = {} /\ requests = 0 /\ polls = 0 /\ sleeps = <<>>
    /\ slept = FALSE /\ last_response = None /\ output_file = None
    /\ original_deleted = FALSE /\ delete_original = TRUE /\ pop_summary = None

InitGrid ==
    /\ bounds \in BoundsInputs
    /\ \/ /\ num_divisions = None
          /\ min_division \in MinDivisionInputs
       \/ /\ num_divisions \in [1 .. 2 -> -1 .. MaxCount]
          /\ min_division = DefaultMinDivision
    /\ arg_num_divisions = num_divisions
    /\ gpc = "call"
    /\ divisions = None
    /\ geojson_grid = <<>>
    /\ current_grid_coors = None
    /\ division_width = Unbound
    /\ division_height = Unbound
    /\ outer_done = 0
    /\ inner_done = 0
    /\ summary_file = None
    /\ grid_file = None
    /\ call_no = 1
    /\ first_call = None
    /\ FetchIdle

NextGrid ==
    \/ InvalidBounds
    \/ DivisionRaises
    \/ BeginGrid
    \/ InnerBody
    \/ OuterEnd
    \/ DumpGrid
    \/ CallAgain

SpecGrid == InitGrid /\ [][NextGrid]_vars

\* The bounds span a box of non-zero width and height
ProperBox(b) == max_x(b) # min_x(b) /\ max_y(b) # min_y(b)

\* The sizing arguments are positive: the explicit counts, or min_division
PositiveSizing(m, nd) ==
    IF nd = None THEN m > 0 ELSE \A k \in 1 .. Len(nd) : nd[k] > 0

\* The calls on a proper box, with any sizing arguments
InitGridBoxes == InitGrid /\ ProperBox(bounds)

SpecGridBoxes == InitGridBoxes /\ [][NextGrid]_vars

\* The calls with positive sizing arguments, on any box
InitGridSizing == InitGrid /\ PositiveSizing(min_division, num_divisions)

SpecGridSizing == InitGridSizing /\ [][NextGrid]_vars

\* The calls on a proper box with positive sizing arguments
InitGridProper == InitGridBoxes /\ PositiveSizing(min_division, num_divisions)

SpecGridProper == InitGridProper /\ [][NextGrid]_vars

----------------------------------------------------------------------------
(* get_worldpop_data *)

Populations == 0 .. MaxPopulation

\* The status values of the stats service; the code names the first three
Statuses == {"created", "started", "finished", "failed"}

\* What the code reads of a response of the stats service: whether it has a
\* 'data' key, its 'error' and 'status', and data.total_population
Responses ==
    {r \in [has_data : BOOLEAN, error : BOOLEAN, status : Statuses,
            total_population : Populations] :
        ~ r.has_data => r.total_population = 0}

\* has_population with the membership test lost: no cell is ever skipped
has_population_never(properties) == FALSE

\* Line 135: 'population' in grid['properties'].keys()
has_population(properties) == properties # None

\* initial_outcome with "and not is_error" dropped from the first test
initial_outcome_ignoring_error(r) ==
    IF r.has_data THEN "data"
    ELSE IF r.status \in {"created", "started", "finished"} /\ ~ r.error
         THEN "task"
         ELSE "error"

\* Lines 149, 154, 180: which branch the initial response takes
initial_outcome(r) ==
    IF r.has_data /\ ~ r.error THEN "data"
    ELSE IF r.status \in {"created", "started", "finished"} /\ ~ r.error
         THEN "task"
         ELSE "error"

\* Lines 167, 172, 177: which branch a status response takes; "none" when no
\* branch of the if / elif / elif chain is taken
status_outcome(r) ==
    IF r.has_data /\ ~ r.error THEN "data"
    ELSE IF r.status # "finished" /\ ~ r.error THEN "wait"
    ELSE IF r.error THEN "error"
    ELSE "none"

\* Line 160
initial_timeout == 10

\* next_timeout doubling instead of adding 10
next_timeout_doubling(t) == t * 2

\* Line 175
next_timeout(t) == t + 10

\* Lines 186-187 on the cell the loop is at
annotate(data, k, population) == [data EXCEPT ![k] = Some(population)]

\* round(p, 2) on a rational: the nearest hundredth, ties to even
round2(p) ==
    LET x == RatMul(p, FromInt(100))
        f == Floor(x)
        twice == RatMul(RatSub(x, FromInt(f)), FromInt(2))
        up == IF twice[1] > twice[2] THEN TRUE
              ELSE IF twice[1] < twice[2] THEN FALSE
              ELSE f % 2 = 1
    IN  Rat(IF up THEN f + 1 ELSE f, 100)

\* Lines 133-137: a cell that carries a population is skipped
SkipCell ==
    /\ fpc = "cells"
    /\ cell <= Len(geojson_data)
    /\ has_population(geojson_data[cell])
    /\ total_population' = total_population + geojson_data[cell][1]
    /\ cell' = cell + 1
    /\ UNCHANGED <<delete_original, pop_summary, geojson_data, original_data,
                   fpc, current_timeout, fetched, submitted, requests, polls,
                   sleeps, slept, last_response, output_file, original_deleted>>
    /\ UNCHANGED gridVars

\* Lines 139-160 and 180-187: the initial request for a cell and the branch
\* its response r takes.  Responses always carry 'status' and 'error', and
\* with a task status the 'taskid' the status requests are made for.
InitialRequest(r) ==
    /\ fpc = "cells"
    /\ cell <= Len(geojson_data)
    /\ ~ has_population(geojson_data[cell])
    /\ requests' = requests + 1
    /\ submitted' = submitted \cup {cell}
    /\ last_response' = Some([call |-> "initial", response |-> r])
    /\ \/ /\ initial_outcome(r) = "data"
          /\ geojson_data' = annotate(geojson_data, cell, r.total_population)
          /\ total_population' = total_population + r.total_population
          /\ cell' = cell + 1
          /\ UNCHANGED <<fpc, current_timeout, fetched, polls, sleeps, slept,
                         output_file>>
       \/ /\ initial_outcome(r) = "task"
          /\ fetched' = FALSE
          /\ current_timeout' = initial_timeout
          /\ polls' = 0
          /\ sleeps' = <<>>
          /\ slept' = FALSE
          /\ fpc' = "polling"
          /\ UNCHANGED <<geojson_data, total_population, cell, output_file>>
       \/ /\ initial_outcome(r) = "error"
          /\ output_file' = Some(geojson_data)
          /\ fpc' = "failed"
          /\ UNCHANGED <<geojson_data, total_population, cell, current_timeout,
                         fetched, polls, sleeps, slept>>
    /\ UNCHANGED <<delete_original, pop_summary, original_data, original_deleted>>
    /\ UNCHANGED gridVars

\* Lines 161-179 and 186-187: one pass of the while loop, with the status
\* response r
StatusRequest(r) ==
    /\ fpc = "polling"
    /\ ~ fetched
    /\ polls < MaxPolls
    /\ requests' = requests + 1
    /\ polls' = polls + 1
    /\ last_response' = Some([call |-> "status", response |-> r])
    /\ \/ /\ status_outcome(r) = "data"
          /\ fetched' = TRUE
          /\ geojson_data' = annotate(geojson_data, cell, r.total_population)
          /\ total_population' = total_population + r.total_population
          /\ cell' = cell + 1
          /\ fpc' = "cells"
          /\ slept' = FALSE
          /\ UNCHANGED <<current_timeout, sleeps>>
       \/ /\ status_outcome(r) = "wait"
          /\ sleeps' = Append(sleeps, current_timeout)
          /\ slept' = TRUE
          /\ current_timeout' = next_timeout(current_timeout)
          /\ UNCHANGED <<fetched, geojson_data, total_population, cell, fpc>>
       \/ /\ status_outcome(r) = "error"
          /\ fpc' = "failed"
          /\ slept' = FALSE
          /\ UNCHANGED <<fetched, geojson_data, total_population, cell,
                         current_timeout, sleeps>>
       \/ /\ status_outcome(r) = "none"
          /\ slept' = FALSE
          /\ UNCHANGED <<fetched, geojson_data, total_population, cell, fpc,
                         current_timeout, sleeps>>
    /\ UNCHANGED <<delete_original, pop_summary, original_data, submitted,
                   output_file, original_deleted>>
    /\ UNCHANGED gridVars

\* Lines 189-199: after the last cell the data is dumped, the original file
\* removed if asked, and the statistics appended to the summary file when
\* that file exists; the average raises ZeroDivisionError on an empty grid
Finish(summary_exists) ==
    /\ fpc = "cells"
    /\ cell > Len(geojson_data)
    /\ output_file' = Some(geojson_data)
    /\ original_deleted' = delete_original
    /\ IF ~ summary_exists
       THEN fpc' = "done" /\ UNCHANGED pop_summary
       ELSE IF Len(geojson_data) = 0
       THEN fpc' = "raised" /\ UNCHANGED pop_summary
       ELSE /\ fpc' = "done"
            /\ pop_summary' =
                 Some([total |-> round2(FromInt(total_population)),
                       average |-> round2(Rat(total_population,
                                              Len(geojson_data)))])
    /\ UNCHANGED <<delete_original, geojson_data, original_data, cell,
                   total_population, current_timeout, fetched, submitted,
                   requests, polls, sleeps, slept, last_response>>
    /\ UNCHANGED gridVars

\* The features a grid file can hold: each with or without a population
GridFiles ==
    UNION {[1 .. n -> {None} \cup {Some(v) : v \in Populations}] :
             n \in 0 .. NumCells}

\* Lines 126-132: the file is loaded and the loop set up
InitFetch ==
    /\ geojson_data \in GridFiles
    /\ original_data = geojson_data
    /\ delete_original \in BOOLEAN
    /\ fpc = "cells"
    /\ cell = 1
    /\ total_population = 0
    /\ current_timeout = 0
    /\ fetched = FALSE
    /\ submitted = {}
    /\ requests = 0
    /\ polls = 0
    /\ sleeps = <<>>
    /\ slept = FALSE
    /\ last_response = None
    /\ output_file = None
    /\ original_deleted = FALSE
    /\ pop_summary = None
    /\ GridIdle

NextFetch ==
    \/ SkipCell
    \/ \E r \in Responses : InitialRequest(r)
    \/ \E r \in Responses : StatusRequest(r)
    \/ \E summary_exists \in BOOLEAN : Finish(summary_exists)

SpecFetch == InitFetch /\ [][NextFetch]_vars

----------------------------------------------------------------------------
(* Properties of generate_geojson_grid, checked under SpecGrid *)

\* The call has a bounds list of 2 or 4 points
ValidBounds == Len(bounds) \in {2, 4}

\* The call is in minimum-division-size mode
MinDivisionMode == arg_num_divisions = None

\* The metres along axis k (1: the outer loop's axis, 2: the inner loop's)
Dimension(k) == <<width(bounds), height(bounds)>>[k]

\* The degrees along axis k
Span(k) == <<max_x(bounds) - min_x(bounds), max_y(bounds) - min_y(bounds)>>[k]

\* The division count the call's arguments ask for on axis k, read off the
\* arguments: the explicit count the loop at line 76 pairs with axis k, or
\* floor(dimension / min_division)
RequestedCount(k) ==
    IF MinDivisionMode
    THEN Dimension(k) \div min_division
    ELSE arg_num_divisions[3 - k]

\* The requested counts are defined: min_division is not zero
CountsDefined == MinDivisionMode => min_division # 0

\* C1: when generate_geojson_grid finishes, the number of features equals
\* divisions[0][0] * divisions[1][0], and during the emission loop the number
\* of features emitted so far is (completed outer steps * inner count) +
\* completed inner steps of the current outer step.
C1_FeatureCount ==
    /\ gpc = "loop" =>
         Len(geojson_grid) = outer_done * divisions[2].count + inner_done
    /\ gpc = "done" =>
         Len(geojson_grid) = divisions[1].count * divisions[2].count

\* The statement of C1 for the calls whose division counts are all positive
C1_FeatureCountPositive ==
    (divisions # None /\ divisions[1].count > 0 /\ divisions[2].count > 0)
        => C1_FeatureCount

\* C5: a division count that is zero or negative on either axis makes the
\* call fail before any output is produced: no summary file and no grid
\* file is written.
C5_NonPositiveCountFails ==
    (ValidBounds /\ CountsDefined
        /\ \E k \in 1 .. 2 : RequestedCount(k) <= 0)
    => (summary_file = None /\ grid_file = None /\ gpc # "done")

\* The statement of C5 for the counts that are zero
C5_ZeroCountFails ==
    (ValidBounds /\ CountsDefined
        /\ \E k \in 1 .. 2 : RequestedCount(k) = 0)
    => (summary_file = None /\ grid_file = None /\ gpc # "done")

\* C6: a second call with the same argument objects produces the same
\* division counts and the same cells in the same order as the first, and a
\* call leaves the caller's num_divisions argument unchanged.
C6_SecondCallSame ==
    /\ gpc = "done" => num_divisions = arg_num_divisions
    /\ (call_no = 2 /\ gpc = "done") =>
         /\ divisions = first_call[1].divisions
         /\ geojson_grid = first_call[1].features

\* C7: in minimum-division-size mode, on every axis with distance D and
\* minimum size m where D >= m > 0, the count is floor(D / m), count times
\* the adjusted size is D, and the adjusted size is at least m, equal to m
\* exactly when m divides D.
C7_DivisionSizing ==
    (MinDivisionMode /\ gpc \in {"loop", "done"}) =>
        \A k \in 1 .. 2 :
            (Dimension(k) >= min_division /\ min_division > 0) =>
                LET D == Dimension(k)
                    m == min_division
                    count == divisions[k].count
                    size == divisions[k].metres
                IN  /\ count = D \div m
                    /\ count * size[1] = D * size[2]
                    /\ size[1] >= m * size[2]
                    /\ (size = FromInt(m)) <=> (D % m = 0)

\* C7's case: a distance that min_division does not divide, split in at
\* least two divisions
C7_Witness ==
    /\ MinDivisionMode
    /\ gpc = "done"
    /\ min_division > 0
    /\ \E k \in 1 .. 2 :
          /\ Dimension(k) % min_division # 0
          /\ divisions[k].count >= 2

\* A cell of the grid has zero width or zero height
ZeroSizeCell(feature) ==
    \/ feature.coordinates[1] = feature.coordinates[2]
    \/ feature.coordinates[2] = feature.coordinates[3]

\* The normalized bounds have zero latitude span or zero longitude span
Degenerate == ValidBounds /\ \E k \in 1 .. 2 : Span(k) = 0

\* C9: a degenerate bounding box is rejected in either sizing mode: the call
\* fails, no grid is written and no cell of zero width or height is emitted.
C9_DegenerateRejected ==
    Degenerate =>
        /\ grid_file = None
        /\ gpc # "done"
        /\ \A n \in 1 .. Len(geojson_grid) : ~ ZeroSizeCell(geojson_grid[n])

\* The statement of C9 for minimum-division-size mode
C9_DegenerateRejectedMinDivision ==
    MinDivisionMode => C9_DegenerateRejected

----------------------------------------------------------------------------
(* Properties of get_worldpop_data, checked under SpecFetch *)

\* The cells of the grid file
Cells == 1 .. Len(original_data)

\* Cell k carried a population when the run started
Annotated(k) == original_data[k] # None

\* C2: a cell that carries a population at the start of the run is never
\* submitted to the stats service and keeps its population; on a grid where
\* every cell carries one, no remote call is made at all.
C2_AnnotatedCellsSkipped ==
    /\ \A k \in Cells :
          Annotated(k) => (k \notin submitted /\ geojson_data[k] = original_data[k])
    /\ (\A k \in Cells : Annotated(k)) =>
          (requests = 0 /\ geojson_data = original_data)

\* C2's case: a run over a grid of at least two cells, all annotated, has
\* completed
C2_Witness ==
    /\ fpc = "done"
    /\ Len(original_data) >= 2
    /\ \A k \in Cells : Annotated(k)
    /\ output_file = Some(original_data)

\* The latest response answered the call of the given kind
LastCall(kind) == last_response # None /\ last_response[1].call = kind

\* C3: in the polling sub-state the k-th wait lasts 10 * k seconds: the
\* backoff is 10 for a newly escalated cell and grows by 10 after each wait,
\* and a status response with no data, no error and a status other than
\* finished is followed by a wait and another pass of the loop.
C3_LinearBackoff ==
    /\ fpc = "polling" =>
         /\ \A k \in 1 .. Len(sleeps) : sleeps[k] = 10 * k
         /\ current_timeout = 10 * (Len(sleeps) + 1)
    /\ ( /\ LastCall("status")
         /\ ~ last_response[1].response.has_data
         /\ ~ last_response[1].response.error
         /\ last_response[1].response.status # "finished" ) =>
         /\ fpc = "polling"
         /\ ~ fetched
         /\ slept
         /\ sleeps # <<>>
         /\ sleeps[Len(sleeps)] = 10 * Len(sleeps)

\* C3's case: the second cell of the run was escalated after the first one
\* had been polled, and has waited 10 and then 20 seconds
C3_Witness ==
    /\ fpc = "polling"
    /\ cell = 2
    /\ requests >= 5
    /\ sleeps = <<10, 20>>

\* The initial response r carries an error, or has no data and a status
\* outside created, started, finished
InitialFailure(r) ==
    \/ r.error
    \/ ~ r.has_data /\ r.status \notin {"created", "started", "finished"}

\* C4: an initial response that carries an error, or has no data and an
\* unrecognised status, aborts the run: the run is failed, the cell and every
\* later cell are as they were in the grid file (the cell without a
\* population), only cells up to it were ever submitted, an error on the
\* first request of the run leaves the whole grid as loaded, and once failed
\* the run makes no further request and annotates nothing.
C4_InitialErrorAborts ==
    /\ []( (LastCall("initial") /\ InitialFailure(last_response[1].response)) =>
             /\ fpc = "failed"
             /\ geojson_data[cell] = None
             /\ \A k \in Cells : k >= cell => geojson_data[k] = original_data[k]
             /\ \A k \in submitted : k <= cell
             /\ requests = 1 => geojson_data = original_data )
    /\ [][ fpc = "failed" =>
             (fpc' = "failed" /\ requests' = requests
                 /\ submitted' = submitted /\ geojson_data' = geojson_data) ]_vars

\* C4's case: the first cell was annotated in this run and the second cell's
\* initial response failed
C4_Witness ==
    /\ fpc = "failed"
    /\ LastCall("initial")
    /\ InitialFailure(last_response[1].response)
    /\ cell = 2
    /\ original_data[1] = None
    /\ geojson_data[1] # None

\* C8: whenever the run is aborted on an error of the stats service, on an
\* initial response or on a status response, the annotations gathered so
\* far have been written to the output file.
C8_ErrorPersistsPartial ==
    fpc = "failed" => output_file = Some(geojson_data)

\* The statement of C8 for an error on a cell's initial response
C8_InitialErrorPersistsPartial ==
    (fpc = "failed" /\ LastCall("initial")) => output_file = Some(geojson_data)

\* C10: in the polling sub-state, after any status response the loop has
\* either ended or slept: the next status request is never issued without a
\* sleep after the previous one.
C10_SleepBetweenPolls ==
    (fpc = "polling" /\ polls > 0) => slept

====
